---------------------------- MODULE Spec2Model ----------------------------
(***************************************************************************)
(* Camera2D (camera_2d.go) and the transform part of Primitive2D           *)
(* (primitive_2d.go) of gl-utils.                                          *)
(*                                                                         *)
(* float32 values are modelled as exact extended rationals <<n, d>>:       *)
(*   d > 0  : the rational n/d in lowest terms                             *)
(*   <<1,0>>: +Inf     <<-1,0>>: -Inf     <<0,0>>: NaN                     *)
(* with the IEEE-754 rules for the non-finite values (x/0, Inf-Inf, 0*Inf, *)
(* comparisons with NaN).  Rounding and the sign of zero are not modelled. *)
(***************************************************************************)
EXTENDS Integers, Sequences, FiniteSets, TLC

----------------------------------------------------------------------------
(* float32 arithmetic *)

AbsInt(n) == IF n < 0 THEN -n ELSE n

SgnInt(n) == IF n < 0 THEN -1 ELSE IF n > 0 THEN 1 ELSE 0

RECURSIVE GCD(_, _)
GCD(a, b) == IF b = 0 THEN a ELSE GCD(b, a % b)

\* n/d in lowest terms; d = 0 gives the non-finite value of n's sign
Norm(n, d) ==
    IF d = 0 THEN <<SgnInt(n), 0>>
    ELSE LET s == IF d < 0 THEN -1 ELSE 1
             g == GCD(AbsInt(n), AbsInt(d))
         IN  <<(s * n) \div g, (s * d) \div g>>

F(n) == <<n, 1>>
Q(n, d) == Norm(n, d)
NaN == <<0, 0>>
PosInf == <<1, 0>>
NegInf == <<-1, 0>>

IsNaN(a) == a = NaN
IsInf(a) == a[2] = 0 /\ a[1] # 0

FNeg(a) == <<-a[1], a[2]>>

FAdd(a, b) ==
    IF IsNaN(a) \/ IsNaN(b) THEN NaN
    ELSE IF IsInf(a) /\ IsInf(b) THEN (IF a = b THEN a ELSE NaN)
    ELSE IF IsInf(a) THEN a
    ELSE IF IsInf(b) THEN b
    ELSE Norm(a[1] * b[2] + b[1] * a[2], a[2] * b[2])

FSub(a, b) == FAdd(a, FNeg(b))

\* 0 * Inf = NaN falls out of the representation: <<0, 0>>
FMul(a, b) == Norm(a[1] * b[1], a[2] * b[2])

\* 1/a: 1/0 = +Inf, 1/Inf = 0, 1/NaN = NaN
FRecip(a) ==
    IF a[1] > 0 THEN <<a[2], a[1]>>
    ELSE IF a[1] < 0 THEN <<-a[2], -a[1]>>
    ELSE IF a[2] > 0 THEN PosInf ELSE NaN

FDiv(a, b) == FMul(a, FRecip(b))

\* a < b; false whenever an operand is NaN
FLt(a, b) ==
    IF IsNaN(a) \/ IsNaN(b) THEN FALSE
    ELSE IF a = b THEN FALSE
    ELSE IF a = NegInf \/ b = PosInf THEN TRUE
    ELSE IF a = PosInf \/ b = NegInf THEN FALSE
    ELSE a[1] * b[2] < b[1] * a[2]

FGt(a, b) == FLt(b, a)

FLe(a, b) == (~IsNaN(a) /\ a = b) \/ FLt(a, b)

\* math.Abs
FAbs(a) == <<AbsInt(a[1]), a[2]>>

\* math.Min: NaN if either operand is NaN
FMin(a, b) ==
    IF IsNaN(a) \/ IsNaN(b) THEN NaN
    ELSE IF FLt(a, b) THEN a ELSE b

FMax(a, b) ==
    IF IsNaN(a) \/ IsNaN(b) THEN NaN
    ELSE IF FLt(a, b) THEN b ELSE a

\* mgl32.Clamp(a, low, high)
Clamp(a, low, high) ==
    IF FLt(a, low) THEN low
    ELSE IF FGt(a, high) THEN high
    ELSE a

----------------------------------------------------------------------------
(* mgl32 matrices: Mat4 is a 16-tuple in column-major order, element      *)
(* (row r, column c), both from 0, at index 4*c + r + 1.                   *)

Zero == F(0)
One == F(1)

At(m, r, c) == m[4 * c + r + 1]

\* the zero value Mat4{}
ZeroMat4 ==
    << Zero, Zero, Zero, Zero, Zero, Zero, Zero, Zero,
       Zero, Zero, Zero, Zero, Zero, Zero, Zero, Zero >>

\* mgl32.Translate3D
Translate3D(tx, ty, tz) ==
    << One, Zero, Zero, Zero,
       Zero, One, Zero, Zero,
       Zero, Zero, One, Zero,
       tx, ty, tz, One >>

\* mgl32.Scale3D
Scale3D(sx, sy, sz) ==
    << sx, Zero, Zero, Zero,
       Zero, sy, Zero, Zero,
       Zero, Zero, sz, Zero,
       Zero, Zero, Zero, One >>

\* row r of a times column c of b
Dot4(a, b, r, c) ==
    FAdd(FAdd(FMul(At(a, r, 0), At(b, 0, c)), FMul(At(a, r, 1), At(b, 1, c))),
         FAdd(FMul(At(a, r, 2), At(b, 2, c)), FMul(At(a, r, 3), At(b, 3, c))))

\* mgl32.Mat4.Mul4
Mul4(a, b) ==
    << Dot4(a, b, 0, 0), Dot4(a, b, 1, 0), Dot4(a, b, 2, 0), Dot4(a, b, 3, 0),
       Dot4(a, b, 0, 1), Dot4(a, b, 1, 1), Dot4(a, b, 2, 1), Dot4(a, b, 3, 1),
       Dot4(a, b, 0, 2), Dot4(a, b, 1, 2), Dot4(a, b, 2, 2), Dot4(a, b, 3, 2),
       Dot4(a, b, 0, 3), Dot4(a, b, 1, 3), Dot4(a, b, 2, 3), Dot4(a, b, 3, 3) >>

\* mgl32.Ortho(left, right, bottom, top, near, far)
Ortho(left, right, bottom, top, near, far) ==
    LET rml == FSub(right, left)
        tmb == FSub(top, bottom)
        fmn == FSub(far, near)
    IN  << FDiv(F(2), rml), Zero, Zero, Zero,
           Zero, FDiv(F(2), tmb), Zero, Zero,
           Zero, Zero, FDiv(F(-2), fmn), Zero,
           FDiv(FNeg(FAdd(right, left)), rml),
           FDiv(FNeg(FAdd(top, bottom)), tmb),
           FDiv(FNeg(FAdd(far, near)), fmn),
           One >>

\* rows/columns other than k, in order
Others(k) == CASE k = 0 -> <<1, 2, 3>>
               [] k = 1 -> <<0, 2, 3>>
               [] k = 2 -> <<0, 1, 3>>
               [] k = 3 -> <<0, 1, 2>>

Det2(a, b, c, d) == FSub(FMul(a, d), FMul(b, c))

\* determinant of m with row r and column c removed
Minor(m, r, c) ==
    LET rs == Others(r)
        cs == Others(c)
        e(i, j) == At(m, rs[i], cs[j])
    IN  FAdd(FSub(FMul(e(1, 1), Det2(e(2, 2), e(2, 3), e(3, 2), e(3, 3))),
                  FMul(e(1, 2), Det2(e(2, 1), e(2, 3), e(3, 1), e(3, 3)))),
             FMul(e(1, 3), Det2(e(2, 1), e(2, 2), e(3, 1), e(3, 2))))

Cofactor(m, r, c) == IF (r + c) % 2 = 0 THEN Minor(m, r, c) ELSE FNeg(Minor(m, r, c))

\* mgl32.Mat4.Det
Det(m) ==
    FAdd(FAdd(FMul(At(m, 0, 0), Cofactor(m, 0, 0)), FMul(At(m, 0, 1), Cofactor(m, 0, 1))),
         FAdd(FMul(At(m, 0, 2), Cofactor(m, 0, 2)), FMul(At(m, 0, 3), Cofactor(m, 0, 3))))

\* mgl32.Mat4.Inv: the zero matrix when the determinant is 0, else adjugate/det
Inv(m) ==
    LET det == Det(m)
        inv == FRecip(det)
        e(r, c) == FMul(Cofactor(m, c, r), inv)
    IN  IF det = Zero THEN ZeroMat4
        ELSE << e(0, 0), e(1, 0), e(2, 0), e(3, 0),
                e(0, 1), e(1, 1), e(2, 1), e(3, 1),
                e(0, 2), e(1, 2), e(2, 2), e(3, 2),
                e(0, 3), e(1, 3), e(2, 3), e(3, 3) >>

\* mgl32.TransformCoordinate(v, m): m * (v, 1), divided by w
TransformCoordinate(v, m) ==
    LET row(r) == FAdd(FAdd(FMul(At(m, r, 0), v[1]), FMul(At(m, r, 1), v[2])),
                       FAdd(FMul(At(m, r, 2), v[3]), At(m, r, 3)))
        w == row(3)
    IN  << FDiv(row(0), w), FDiv(row(1), w), FDiv(row(2), w) >>

----------------------------------------------------------------------------
(* Camera2D *)

VARIABLES
    camera,     \* the Camera2D object (camera_2d.go, the struct's fields)
    primitive,  \* the Primitive2D object (primitive_2d.go, the transform fields)
    last,       \* the last call made: its name, arguments, returned value, and the
                \* name of the call made before it
    calls,      \* the number of calls made so far
    before      \* the primitive as it was when a SetFlipX(true) call found flipX false

vars == <<camera, primitive, last, calls, before>>

None == <<>>

\* before, when the last calls are no SetFlipX(true), SetFlipX(false) pair in the making
NoFlip == [stage |-> 0, p |-> None]

\* the record of a call made now
Call(op, arg, ret) == [op |-> op, arg |-> arg, ret |-> ret, after |-> last.op]

\* the record of the constructor's call
FirstCall(op, arg) == [op |-> op, arg |-> arg, ret |-> None, after |-> "none"]

\* the clip-plane bounds rebuildMatrix computes
Bounds(c) ==
    LET hw == FDiv(c.halfWidth, c.zoom)
        hh == FDiv(c.halfHeight, c.zoom)
        left0 == IF c.centered THEN FNeg(hw) ELSE Zero
        right0 == IF c.centered THEN hw ELSE FDiv(c.width, c.zoom)
        top0 == IF c.centered THEN hh ELSE FDiv(c.height, c.zoom)
        bottom0 == IF c.centered THEN FNeg(hh) ELSE Zero
        top1 == FAdd(top0, c.y)
        bottom1 == FAdd(bottom0, c.y)
    IN  [left |-> FAdd(left0, c.x),
         right |-> FAdd(right0, c.x),
         top |-> IF c.flipVertical THEN bottom1 ELSE top1,
         bottom |-> IF c.flipVertical THEN top1 ELSE bottom1]

\* rebuildMatrix's projection had it passed bottom and top in Ortho's own order
Projection_BottomThenTop(c) ==
    LET b == Bounds(c)
    IN  Ortho(b.left, b.right, b.bottom, b.top, c.near, c.far)

\* the projection rebuildMatrix builds: top is passed as Ortho's bottom, bottom as its top
Projection(c) ==
    LET b == Bounds(c)
    IN  Ortho(b.left, b.right, b.top, b.bottom, c.near, c.far)

rebuildMatrix(c) ==
    IF ~c.matrixDirty THEN c
    ELSE LET P == Projection(c)
         IN  [c EXCEPT !.projectionMatrix = P,
                       !.inverseMatrix = Inv(P),
                       !.matrixDirty = FALSE]

DefaultMinZoom == Q(1, 100)
DefaultMaxZoom == F(20)

NewCamera2D(width, height, zoom) ==
    rebuildMatrix(
        [x |-> Zero, y |-> Zero,
         width |-> F(width), halfWidth |-> FDiv(F(width), F(2)),
         height |-> F(height), halfHeight |-> FDiv(F(height), F(2)),
         zoom |-> zoom, minZoom |-> DefaultMinZoom, maxZoom |-> DefaultMaxZoom,
         centered |-> FALSE, flipVertical |-> FALSE,
         near |-> F(2), far |-> F(-2),
         projectionMatrix |-> ZeroMat4, inverseMatrix |-> ZeroMat4,
         matrixDirty |-> TRUE])

Camera2D_SetPosition(c, x, y) ==
    [c EXCEPT !.x = x, !.y = y, !.matrixDirty = TRUE]

Camera2D_Translate(c, x, y) ==
    LET dy == IF c.flipVertical THEN FNeg(y) ELSE y
    IN  [c EXCEPT !.x = FAdd(c.x, x), !.y = FAdd(c.y, dy), !.matrixDirty = TRUE]

Camera2D_SetZoom(c, zoom) ==
    [c EXCEPT !.zoom = Clamp(zoom, c.minZoom, c.maxZoom), !.matrixDirty = TRUE]

Camera2D_SetZoomRange(c, minZoom, maxZoom) ==
    LET r == [c EXCEPT !.minZoom = minZoom, !.maxZoom = maxZoom]
    IN  IF FGt(r.zoom, r.maxZoom) \/ FLt(r.zoom, r.minZoom)
        THEN Camera2D_SetZoom(r, r.zoom)
        ELSE r

Camera2D_SetCentered(c, centered) ==
    [c EXCEPT !.centered = centered, !.matrixDirty = TRUE]

Camera2D_SetFlipVertical(c, flip) ==
    [c EXCEPT !.flipVertical = flip, !.matrixDirty = TRUE]

\* SetVisibleArea's zoom had it taken the larger of the two ratios
AreaZoom_LargerRatio(c, x1, y1, x2, y2) ==
    LET width == FAbs(FSub(x2, x1))
        height == FAbs(FSub(y2, y1))
    IN  FMax(FDiv(c.width, width), FDiv(c.height, height))

\* the zoom SetVisibleArea passes to SetZoom
AreaZoom(c, x1, y1, x2, y2) ==
    LET width == FAbs(FSub(x2, x1))
        height == FAbs(FSub(y2, y1))
    IN  FMin(FDiv(c.width, width), FDiv(c.height, height))

Camera2D_SetVisibleArea(c, x1, y1, x2, y2) ==
    LET width == FAbs(FSub(x2, x1))
        height == FAbs(FSub(y2, y1))
        z == Camera2D_SetZoom(c, AreaZoom(c, x1, y1, x2, y2))
        x == FMin(x1, x2)
        y == FMin(y1, y2)
    IN  IF z.centered
        THEN Camera2D_SetPosition(z, FAdd(x, FDiv(width, F(2))), FAdd(y, FDiv(height, F(2))))
        ELSE Camera2D_SetPosition(z, x, y)

Camera2D_ScreenToWorld(c, vec) ==
    LET v2 == IF c.flipVertical THEN FSub(c.height, vec[2]) ELSE vec[2]
        x == FDiv(FSub(vec[1], c.halfWidth), c.halfWidth)
        y == FDiv(FSub(v2, c.halfHeight), c.halfHeight)
    IN  TransformCoordinate(<<x, y, Zero>>, c.inverseMatrix)

Camera2D_WorldToScreen(c, vec) ==
    LET ret == TransformCoordinate(vec, c.projectionMatrix)
        r1 == FAdd(FMul(ret[1], c.halfWidth), c.halfWidth)
        r2 == FAdd(FMul(ret[2], c.halfHeight), c.halfHeight)
    IN  << r1, IF c.flipVertical THEN FSub(c.height, r2) ELSE r2 >>

----------------------------------------------------------------------------
(* Primitive2D *)

\* cos and sin of an angle of q quarter turns
CosQ(q) == CASE q % 4 = 0 -> One [] q % 4 = 1 -> Zero [] q % 4 = 2 -> F(-1) [] q % 4 = 3 -> Zero
SinQ(q) == CASE q % 4 = 0 -> Zero [] q % 4 = 1 -> One [] q % 4 = 2 -> Zero [] q % 4 = 3 -> F(-1)

\* mgl32.HomogRotate3DZ; the angle is given in quarter turns
HomogRotate3DZ(q) ==
    << CosQ(q), SinQ(q), Zero, Zero,
       FNeg(SinQ(q)), CosQ(q), Zero, Zero,
       Zero, Zero, One, Zero,
       Zero, Zero, Zero, One >>

\* rebuildScaleMatrix had it negated the stored scale itself on a flip
rebuildScaleMatrix_NegatesStoredScale(p) ==
    LET scaleX == IF p.flipX THEN FMul(p.scale[1], F(-1)) ELSE p.scale[1]
        scaleY == IF p.flipY THEN FMul(p.scale[2], F(-1)) ELSE p.scale[2]
    IN  [p EXCEPT !.scale = <<scaleX, scaleY>>,
                  !.modelMatrix.scale = Scale3D(scaleX, scaleY, One),
                  !.modelMatrix.dirty = TRUE]

rebuildScaleMatrix(p) ==
    LET scaleX == IF p.flipX THEN FMul(p.scale[1], F(-1)) ELSE p.scale[1]
        scaleY == IF p.flipY THEN FMul(p.scale[2], F(-1)) ELSE p.scale[2]
    IN  [p EXCEPT !.modelMatrix.scale = Scale3D(scaleX, scaleY, One),
                  !.modelMatrix.dirty = TRUE]

rebuildMatrices(p) ==
    LET q == [p EXCEPT
                !.modelMatrix.translation = Translate3D(p.position[1], p.position[2], p.position[3]),
                !.modelMatrix.anchor = Translate3D(FNeg(p.anchor[1]), FNeg(p.anchor[2]), Zero),
                !.modelMatrix.rotation = HomogRotate3DZ(p.angle),
                !.modelMatrix.size = Scale3D(p.size[1], p.size[2], One)]
    IN  [rebuildScaleMatrix(q) EXCEPT !.modelMatrix.dirty = TRUE]

\* NewQuadPrimitive, NewRectPrimitive, NewTriangles: the transform fields
NewPrimitive2D(position, size) ==
    rebuildMatrices(
        [position |-> position,
         scale |-> <<One, One>>,
         size |-> size,
         anchor |-> <<Zero, Zero>>,
         angle |-> 0,
         flipX |-> FALSE,
         flipY |-> FALSE,
         modelMatrix |-> [Mat4 |-> ZeroMat4, size |-> ZeroMat4, translation |-> ZeroMat4,
                          rotation |-> ZeroMat4, scale |-> ZeroMat4, anchor |-> ZeroMat4,
                          dirty |-> FALSE]])

Primitive2D_SetPosition(p, position) ==
    [p EXCEPT !.position = position,
              !.modelMatrix.translation = Translate3D(position[1], position[2], position[3]),
              !.modelMatrix.dirty = TRUE]

Primitive2D_SetAnchor(p, anchor) ==
    [p EXCEPT !.anchor = anchor,
              !.modelMatrix.anchor = Translate3D(FNeg(anchor[1]), FNeg(anchor[2]), Zero),
              !.modelMatrix.dirty = TRUE]

Primitive2D_SetAnchorToCenter(p) ==
    Primitive2D_SetAnchor(p, <<FDiv(p.size[1], F(2)), FDiv(p.size[2], F(2))>>)

Primitive2D_SetAngle(p, radians) ==
    [p EXCEPT !.angle = radians,
              !.modelMatrix.rotation = HomogRotate3DZ(radians),
              !.modelMatrix.dirty = TRUE]

\* SetSize had it not marked the model matrix dirty
Primitive2D_SetSize_LeavesClean(p, size) ==
    [p EXCEPT !.size = size,
              !.modelMatrix.size = Scale3D(size[1], size[2], One)]

Primitive2D_SetSize(p, size) ==
    [p EXCEPT !.size = size,
              !.modelMatrix.size = Scale3D(size[1], size[2], One),
              !.modelMatrix.dirty = TRUE]

Primitive2D_SetScale(p, scale) == rebuildScaleMatrix([p EXCEPT !.scale = scale])

Primitive2D_SetFlipX(p, flipX) == rebuildScaleMatrix([p EXCEPT !.flipX = flipX])

Primitive2D_SetFlipY(p, flipY) == rebuildScaleMatrix([p EXCEPT !.flipY = flipY])

\* rebuildModelMatrix had it multiplied the size scale in before the anchor offset
rebuildModelMatrix_SizeBeforeAnchor(p) ==
    IF p.modelMatrix.dirty
    THEN [p EXCEPT !.modelMatrix.Mat4 =
                      Mul4(Mul4(Mul4(Mul4(p.modelMatrix.translation, p.modelMatrix.rotation),
                                     p.modelMatrix.scale),
                                p.modelMatrix.size),
                           p.modelMatrix.anchor),
                   !.modelMatrix.dirty = FALSE]
    ELSE p

rebuildModelMatrix(p) ==
    IF p.modelMatrix.dirty
    THEN [p EXCEPT !.modelMatrix.Mat4 =
                      Mul4(Mul4(Mul4(Mul4(p.modelMatrix.translation, p.modelMatrix.rotation),
                                     p.modelMatrix.scale),
                                p.modelMatrix.anchor),
                           p.modelMatrix.size),
                   !.modelMatrix.dirty = FALSE]
    ELSE p

----------------------------------------------------------------------------
(* Calls on the camera.  Every call is one step; MaxCalls bounds the length *)
(* of the call sequences explored.                                         *)

MaxCalls == 4

\* a call on the camera: c is the camera it leaves, ret the value it returns
CameraCall(op, arg, c, ret) ==
    /\ calls < MaxCalls
    /\ camera' = c
    /\ last' = Call(op, arg, ret)
    /\ calls' = calls + 1
    /\ UNCHANGED <<primitive, before>>

Camera_SetPosition(x, y) ==
    CameraCall("SetPosition", <<x, y>>, Camera2D_SetPosition(camera, x, y), None)

Camera_Translate(x, y) ==
    CameraCall("Translate", <<x, y>>, Camera2D_Translate(camera, x, y), None)

Camera_SetZoom(zoom) ==
    CameraCall("SetZoom", <<zoom>>, Camera2D_SetZoom(camera, zoom), None)

Camera_SetZoomRange(minZoom, maxZoom) ==
    CameraCall("SetZoomRange", <<minZoom, maxZoom>>,
               Camera2D_SetZoomRange(camera, minZoom, maxZoom), None)

Camera_SetCentered(centered) ==
    CameraCall("SetCentered", <<centered>>, Camera2D_SetCentered(camera, centered), None)

Camera_SetFlipVertical(flip) ==
    CameraCall("SetFlipVertical", <<flip>>, Camera2D_SetFlipVertical(camera, flip), None)

Camera_SetVisibleArea(x1, y1, x2, y2) ==
    CameraCall("SetVisibleArea", <<x1, y1, x2, y2>>,
               Camera2D_SetVisibleArea(camera, x1, y1, x2, y2), None)

Camera_ProjectionMatrix ==
    LET c == rebuildMatrix(camera)
    IN  CameraCall("ProjectionMatrix", None, c, c.projectionMatrix)

Camera_ScreenToWorld(vec) ==
    CameraCall("ScreenToWorld", vec, camera, Camera2D_ScreenToWorld(camera, vec))

Camera_WorldToScreen(vec) ==
    CameraCall("WorldToScreen", vec, camera, Camera2D_WorldToScreen(camera, vec))

\* the calls, with their arguments drawn from the sets of in
CameraNext(in) ==
    \/ \E p \in in.positions : Camera_SetPosition(p[1], p[2])
    \/ \E d \in in.offsets : Camera_Translate(d[1], d[2])
    \/ \E z \in in.zooms : Camera_SetZoom(z)
    \/ \E r \in in.ranges : Camera_SetZoomRange(r[1], r[2])
    \/ \E b \in BOOLEAN : Camera_SetCentered(b)
    \/ \E b \in BOOLEAN : Camera_SetFlipVertical(b)
    \/ \E a \in in.areas : Camera_SetVisibleArea(a[1], a[2], a[3], a[4])
    \/ Camera_ProjectionMatrix
    \/ \E v \in in.screens : Camera_ScreenToWorld(v)
    \/ \E v \in in.worlds : Camera_WorldToScreen(v)

\* the primitive every camera run leaves untouched
IdlePrimitive == NewPrimitive2D(<<Zero, Zero, Zero>>, <<One, One>>)

CameraInit(viewports, zooms) ==
    /\ \E v \in viewports, z \in zooms :
          /\ camera = NewCamera2D(v[1], v[2], z)
          /\ last = FirstCall("NewCamera2D", <<v[1], v[2], z>>)
    /\ primitive = IdlePrimitive
    /\ calls = 0
    /\ before = NoFlip

\* A small viewport, with the arguments the zoom clamp has to deal with: zero,
\* negative and oversized zooms, inverted and non-positive ranges, areas that are
\* tiny, huge, empty, or given by their corners in either order.
CamViewports == {<<8, 6>>}

CamZooms == {F(1), F(0), F(100)}

CamInputs ==
    [positions |-> {<<F(1), F(2)>>},
     offsets |-> {<<F(1), F(1)>>},
     zooms |-> {F(0), F(2), F(-1)},
     ranges |-> {<<F(5), F(2)>>, <<F(-1), Q(1, 2)>>, <<Q(1, 2), F(4)>>},
     areas |-> {<<F(0), F(0), F(4), F(2)>>, <<F(3), F(5), F(1), F(1)>>,
                <<F(0), F(0), F(1600), F(6)>>, <<F(1), F(1), F(1), F(1)>>},
     screens |-> {<<F(0), F(0)>>, <<F(8), F(6)>>},
     worlds |-> {<<F(0), F(0), F(0)>>, <<F(1), F(2), F(3)>>}]

SpecCam == CameraInit(CamViewports, CamZooms) /\ [][CameraNext(CamInputs)]_vars

----------------------------------------------------------------------------
(* Calls on the primitive *)

\* what before records: stage 1 after SetFlipX(true) found flipX false (p is the
\* primitive as that call found it), stage 2 when SetFlipX(false) follows at once
FlipRecord(op, arg) ==
    IF op = "SetFlipX" /\ arg = <<TRUE>> /\ ~primitive.flipX
    THEN [stage |-> 1, p |-> primitive]
    ELSE IF op = "SetFlipX" /\ arg = <<FALSE>> /\ before.stage = 1
    THEN [before EXCEPT !.stage = 2]
    ELSE NoFlip

\* a call on the primitive: p is the primitive it leaves, ret the value it returns
PrimitiveCall(op, arg, p, ret) ==
    /\ calls < MaxCalls
    /\ primitive' = p
    /\ last' = Call(op, arg, ret)
    /\ calls' = calls + 1
    /\ before' = FlipRecord(op, arg)
    /\ UNCHANGED camera

Primitive_SetPosition(position) ==
    PrimitiveCall("SetPosition", <<position>>, Primitive2D_SetPosition(primitive, position), None)

Primitive_SetAnchor(anchor) ==
    PrimitiveCall("SetAnchor", <<anchor>>, Primitive2D_SetAnchor(primitive, anchor), None)

Primitive_SetAnchorToCenter ==
    PrimitiveCall("SetAnchorToCenter", None, Primitive2D_SetAnchorToCenter(primitive), None)

Primitive_SetAngle(radians) ==
    PrimitiveCall("SetAngle", <<radians>>, Primitive2D_SetAngle(primitive, radians), None)

Primitive_SetSize(size) ==
    PrimitiveCall("SetSize", <<size>>, Primitive2D_SetSize(primitive, size), None)

Primitive_SetScale(scale) ==
    PrimitiveCall("SetScale", <<scale>>, Primitive2D_SetScale(primitive, scale), None)

Primitive_SetFlipX(flipX) ==
    PrimitiveCall("SetFlipX", <<flipX>>, Primitive2D_SetFlipX(primitive, flipX), None)

Primitive_SetFlipY(flipY) ==
    PrimitiveCall("SetFlipY", <<flipY>>, Primitive2D_SetFlipY(primitive, flipY), None)

Primitive_ModelMatrix ==
    LET p == rebuildModelMatrix(primitive)
    IN  PrimitiveCall("ModelMatrix", None, p, p.modelMatrix.Mat4)

\* the largest angle set, in quarter turns
MaxTurns == 2

PrimPositions == {<<F(0), F(0), F(0)>>, <<F(1), F(-2), F(3)>>}

PrimAnchors == {<<F(0), F(0)>>, <<F(1), Q(1, 2)>>}

PrimSizes == {<<F(1), F(1)>>, <<F(2), F(3)>>, <<F(0), F(-4)>>}

PrimScales == {<<F(1), F(1)>>, <<F(-2), F(0)>>, <<F(3), Q(1, 2)>>}

PrimitiveNext ==
    \/ \E v \in PrimPositions : Primitive_SetPosition(v)
    \/ \E v \in PrimAnchors : Primitive_SetAnchor(v)
    \/ Primitive_SetAnchorToCenter
    \/ \E q \in 0..MaxTurns : Primitive_SetAngle(q)
    \/ \E v \in PrimSizes : Primitive_SetSize(v)
    \/ \E v \in PrimScales : Primitive_SetScale(v)
    \/ \E b \in BOOLEAN : Primitive_SetFlipX(b)
    \/ \E b \in BOOLEAN : Primitive_SetFlipY(b)
    \/ Primitive_ModelMatrix

\* the camera every primitive run leaves untouched
IdleCamera == NewCamera2D(8, 6, F(1))

\* the position and size the primitive is created with
PrimCreated ==
    {<<(<<F(0), F(0), F(0)>>), (<<F(1), F(1)>>)>>,
     <<(<<F(1), F(-2), F(3)>>), (<<F(2), F(3)>>)>>}

PrimitiveInit ==
    /\ \E a \in PrimCreated :
          /\ primitive = NewPrimitive2D(a[1], a[2])
          /\ last = FirstCall("NewPrimitive2D", a)
    /\ camera = IdleCamera
    /\ calls = 0
    /\ before = NoFlip

SpecPrim == PrimitiveInit /\ [][PrimitiveNext]_vars

\* The scenario's viewport, 800x600, with arguments that keep every matrix entry
\* and determinant within TLC's 32-bit integers.
ScenarioViewports == {<<800, 600>>}

ScenarioZooms == {F(1), F(2)}

ScenarioInputs ==
    [positions |-> {<<F(0), F(0)>>, <<F(100), F(50)>>},
     offsets |-> {<<F(10), F(20)>>},
     zooms |-> {F(1), Q(1, 2)},
     ranges |-> {<<Q(1, 2), F(4)>>},
     areas |-> {<<F(0), F(0), F(400), F(200)>>, <<F(0), F(0), F(800), F(600)>>},
     screens |-> {<<F(0), F(0)>>, <<F(800), F(600)>>},
     worlds |-> {<<F(0), F(0), F(0)>>}]

SpecScenario ==
    CameraInit(ScenarioViewports, ScenarioZooms) /\ [][CameraNext(ScenarioInputs)]_vars

----------------------------------------------------------------------------
(* Properties of Camera2D *)

CameraMutators ==
    {"SetPosition", "Translate", "SetZoom", "SetZoomRange", "SetCentered",
     "SetFlipVertical", "SetVisibleArea"}

ZoomInRange(c) == FLe(c.minZoom, c.zoom) /\ FLe(c.zoom, c.maxZoom)

\* C1: after any mutator returns, minZoom <= zoom <= maxZoom.
C1_ZoomWithinRange ==
    last.op \in CameraMutators => ZoomInRange(camera)

\* C2: in every reachable state minZoom > 0 and the stored zoom is strictly positive.
C2_ZoomPositive ==
    FGt(camera.minZoom, Zero) /\ FGt(camera.zoom, Zero)

\* C4: screenToWorld(worldToScreen(p)) reproduces p, all three components, in any
\* camera state.
C4_RoundTrip ==
    last.op = "WorldToScreen" => Camera2D_ScreenToWorld(camera, last.ret) = last.arg

\* the rectangle SetVisibleArea was asked for, and the world rectangle the camera shows
Requested(a) ==
    [minX |-> FMin(a[1], a[3]), maxX |-> FMax(a[1], a[3]),
     minY |-> FMin(a[2], a[4]), maxY |-> FMax(a[2], a[4])]

Visible(c) ==
    LET b == Bounds(c)
    IN  [minX |-> FMin(b.left, b.right), maxX |-> FMax(b.left, b.right),
         minY |-> FMin(b.top, b.bottom), maxY |-> FMax(b.top, b.bottom)]

Contains(v, r) ==
    /\ FLe(v.minX, r.minX) /\ FLe(r.maxX, v.maxX)
    /\ FLe(v.minY, r.minY) /\ FLe(r.maxY, v.maxY)

\* on the axis with the smaller ratio viewport/extent, the visible extent is the
\* requested one
ExactOnBindingAxis(c, v, r) ==
    LET reqW == FSub(r.maxX, r.minX)
        reqH == FSub(r.maxY, r.minY)
        ratioX == FDiv(c.width, reqW)
        ratioY == FDiv(c.height, reqH)
    IN  /\ FLe(ratioX, ratioY) => FSub(v.maxX, v.minX) = reqW
        /\ FLe(ratioY, ratioX) => FSub(v.maxY, v.minY) = reqH

ShowsArea(c, a) ==
    /\ Contains(Visible(c), Requested(a))
    /\ ExactOnBindingAxis(c, Visible(c), Requested(a))

\* the zoom SetVisibleArea computed lies within the zoom range, so that SetZoom
\* stored it as it was
AreaZoomUnclamped(c, a) ==
    LET z == AreaZoom(c, a[1], a[2], a[3], a[4])
    IN  FLe(c.minZoom, z) /\ FLe(z, c.maxZoom)

InScenario(c) ==
    /\ c.width = F(800) /\ c.height = F(600)
    /\ ~c.centered /\ ~c.flipVertical
    /\ c.zoom = One
    /\ c.x = Zero /\ c.y = Zero

C8_SetZoomClamps ==
    last.op = "SetZoom" =>
        LET z == last.arg[1]
        IN  /\ ZoomInRange(camera)
            /\ (FLe(camera.minZoom, z) /\ FLe(z, camera.maxZoom)) => camera.zoom = z
            /\ FLt(z, camera.minZoom) => camera.zoom = camera.minZoom
            /\ FGt(z, camera.maxZoom) => camera.zoom = camera.maxZoom
            /\ camera.matrixDirty

\* C10: ScreenToWorld and WorldToScreen use the projection and inverse matrices of
\* the camera's current position, zoom, centered and flipVertical.
C10_NoStaleCache ==
    last.op \in {"ScreenToWorld", "WorldToScreen"} =>
        /\ camera.projectionMatrix = Projection(camera)
        /\ camera.inverseMatrix = Inv(Projection(camera))

----------------------------------------------------------------------------
(* Properties of Primitive2D *)

PrimitiveSetters ==
    {"SetPosition", "SetAnchor", "SetAnchorToCenter", "SetAngle", "SetSize", "SetScale",
     "SetFlipX", "SetFlipY"}

\* translation x rotation x flip-adjusted scale x anchor offset x size scale, from
\* the attributes of p
Composed(p) ==
    LET sx == IF p.flipX THEN FNeg(p.scale[1]) ELSE p.scale[1]
        sy == IF p.flipY THEN FNeg(p.scale[2]) ELSE p.scale[2]
    IN  Mul4(Mul4(Mul4(Mul4(Translate3D(p.position[1], p.position[2], p.position[3]),
                            HomogRotate3DZ(p.angle)),
                       Scale3D(sx, sy, One)),
                  Translate3D(FNeg(p.anchor[1]), FNeg(p.anchor[2]), Zero)),
             Scale3D(p.size[1], p.size[2], One))

\* C3: the matrix ModelMatrix() returns is the product, in this order, of the
\* translation, rotation, flip-adjusted scale, anchor offset and size scale of the
\* current attributes.
C3_ModelMatrixIsProduct ==
    last.op = "ModelMatrix" => last.ret = Composed(primitive)

\* ModelMatrix() read after SetFlipX, SetAngle and SetAnchorToCenter on a 2x3 primitive
C3_Witness ==
    /\ last.op = "ModelMatrix"
    /\ last.after = "SetAnchorToCenter"
    /\ primitive.flipX
    /\ primitive.angle = 1
    /\ primitive.size = <<F(2), F(3)>>
    /\ primitive.position = <<F(1), F(-2), F(3)>>
    /\ primitive.anchor = <<F(1), Q(3, 2)>>

\* C7: every setter leaves the model matrix dirty, ModelMatrix() leaves it clean,
\* and a ModelMatrix() right after a ModelMatrix() returns the same matrix and
\* changes nothing.
C7_DirtyAndCached ==
    /\ [](last.op \in PrimitiveSetters => primitive.modelMatrix.dirty)
    /\ [](last.op = "ModelMatrix" => ~primitive.modelMatrix.dirty)
    /\ [][(last.op = "ModelMatrix" /\ last'.op = "ModelMatrix")
            => (last'.ret = last.ret /\ primitive' = primitive)]_vars

\* a second ModelMatrix() in a row, on a flipped primitive with a negative and a zero scale
C7_Witness ==
    /\ last.op = "ModelMatrix"
    /\ last.after = "ModelMatrix"
    /\ calls = 4
    /\ primitive.flipY
    /\ primitive.scale = <<F(-2), F(0)>>
    /\ last.ret = primitive.modelMatrix.Mat4

\* the matrix ModelMatrix() returns on p
ModelMatrixOf(p) == rebuildModelMatrix(p).modelMatrix.Mat4

\* C9: SetFlipX(true) then SetFlipX(false), on a node whose flipX was false, restores
\* the model matrix and every attribute.
C9_FlipXRoundTrip ==
    before.stage = 2 =>
        /\ ModelMatrixOf(primitive) = ModelMatrixOf(before.p)
        /\ primitive.position = before.p.position
        /\ primitive.scale = before.p.scale
        /\ primitive.size = before.p.size
        /\ primitive.anchor = before.p.anchor
        /\ primitive.angle = before.p.angle
        /\ primitive.flipX = before.p.flipX
        /\ primitive.flipY = before.p.flipY

\* the pair SetFlipX(true), SetFlipX(false) made on a clean primitive of scale (-2, 0)
C9_Witness ==
    /\ before.stage = 2
    /\ last.op = "SetFlipX"
    /\ last.after = "SetFlipX"
    /\ primitive.scale = <<F(-2), F(0)>>
    /\ ~before.p.modelMatrix.dirty

=============================================================================
